---- MODULE Spec2Model ----
(***************************************************************************)
(* A model of the three-stage research pipeline of the PainPoint app:      *)
(* App.tsx (startResearch and the caller's state), geminiService.ts (the   *)
(* three stage functions and getAI) and supabase.ts (profile and credits). *)
(*                                                                         *)
(* Texts are sequences of chunks.  An error message is a sequence whose    *)
(* chunks are either one of the literal messages of the source or one of   *)
(* the markers "401", "403", "429", or "x" (any run of characters that     *)
(* contains no marker).  A backend text is a sequence of JSON tokens.      *)
(***************************************************************************)
EXTENDS Integers, Sequences, FiniteSets, TLC

\* ------------------------------------------------------------ bounds
\* Longest underlying error message, in chunks.
MaxMsgLen == 2
\* Largest value of the profile store's credits counter.
MaxCredits == 3
\* Most profile-store calls in flight when a user event starts another.
MaxTails == 1
\* Most calls of startResearch running at once.
MaxRuns == 2

\* ------------------------------------------------------------ nullable values
None == <<>>
Some(v) == <<v>>
IsSome(o) == o # <<>>
Val(o) == o[1]

\* ------------------------------------------------------------ JSON values
JUndefined == [t |-> "undefined", v |-> 0]
JNull == [t |-> "null", v |-> 0]
JString(s) == [t |-> "string", v |-> s]
JNumber(n) == [t |-> "number", v |-> n]
JArray(s) == [t |-> "array", v |-> s]
JObject(f) == [t |-> "object", v |-> f]

Punct == {"{", "}", "[", "]", ",", ":"}
NumTokens == {"0", "1", "2", "3", "4", "5", "6", "7"}
NumVal(tok) ==
  CASE tok = "0" -> 0 [] tok = "1" -> 1 [] tok = "2" -> 2 [] tok = "3" -> 3
    [] tok = "4" -> 4 [] tok = "5" -> 5 [] tok = "6" -> 6 [] tok = "7" -> 7

IsStringTok(tok) == tok \notin Punct /\ tok \notin NumTokens /\ tok # "null"

PFail == [ok |-> FALSE, val |-> JUndefined, next |-> 0]
POk(v, n) == [ok |-> TRUE, val |-> v, next |-> n]
At(s, i) == IF i <= Len(s) THEN s[i] ELSE "<eof>"

RECURSIVE ParseValue(_, _)
RECURSIVE ParseElements(_, _, _)
RECURSIVE ParseMembers(_, _, _)

\* value := object | array | string | number | null, read from token i of s.
ParseValue(s, i) ==
  LET tok == At(s, i) IN
  IF i > Len(s) THEN PFail
  ELSE IF tok = "{" THEN
         IF At(s, i + 1) = "}" THEN POk(JObject(<<>>), i + 2)
         ELSE ParseMembers(s, i + 1, <<>>)
  ELSE IF tok = "[" THEN
         IF At(s, i + 1) = "]" THEN POk(JArray(<<>>), i + 2)
         ELSE ParseElements(s, i + 1, <<>>)
  ELSE IF tok = "null" THEN POk(JNull, i + 1)
  ELSE IF tok \in NumTokens THEN POk(JNumber(NumVal(tok)), i + 1)
  ELSE IF IsStringTok(tok) THEN POk(JString(tok), i + 1)
  ELSE PFail

\* elements := value ("," value)* "]", the values read so far in acc.
ParseElements(s, i, acc) ==
  LET r == ParseValue(s, i) IN
  IF ~r.ok THEN PFail
  ELSE IF At(s, r.next) = "," THEN ParseElements(s, r.next + 1, Append(acc, r.val))
  ELSE IF At(s, r.next) = "]" THEN POk(JArray(Append(acc, r.val)), r.next + 1)
  ELSE PFail

\* members := string ":" value ("," string ":" value)* "}"; a repeated key keeps
\* the last value, as JSON.parse does.
ParseMembers(s, i, acc) ==
  IF ~(i <= Len(s) /\ IsStringTok(s[i]) /\ At(s, i + 1) = ":") THEN PFail
  ELSE LET r == ParseValue(s, i + 2)
           f == (s[i] :> r.val) @@ acc
       IN IF ~r.ok THEN PFail
          ELSE IF At(s, r.next) = "," THEN ParseMembers(s, r.next + 1, f)
          ELSE IF At(s, r.next) = "}" THEN POk(JObject(f), r.next + 1)
          ELSE PFail

\* JSON.parse(text): the value, or a SyntaxError.
JSONParse(s) ==
  LET r == ParseValue(s, 1) IN
  IF r.ok /\ r.next = Len(s) + 1 THEN [ok |-> TRUE, val |-> r.val]
  ELSE [ok |-> FALSE, val |-> JUndefined]

\* v.k in JavaScript, for a v that is neither null nor undefined.
Get(v, k) ==
  IF v.t = "object" /\ k \in DOMAIN v.v THEN v.v[k] ELSE JUndefined

\* Reading a property of v throws a TypeError.
PropThrows(v) == v.t \in {"undefined", "null"}

\* ------------------------------------------------------------ schemas
TString == [type |-> "string"]
TNumber == [type |-> "number"]
TArray(items) == [type |-> "array", items |-> items]
TObject(properties, required) ==
  [type |-> "object", properties |-> properties, required |-> required]

RESEARCH_PLAN_SCHEMA ==
  TObject([subreddits |->
             TArray(TObject([name |-> TString, queries |-> TArray(TString)],
                            {"name", "queries"})),
           softwareCategories |-> TArray(TString),
           competitorApps |-> TArray(TString),
           searchStrings |-> TArray(TString),
           nicheForums |-> TArray(TString)],
          {"subreddits", "softwareCategories", "competitorApps", "searchStrings",
           "nicheForums"})

SIGNAL_REPORT_SCHEMA ==
  TObject([executiveSummary |-> TString,
           patterns |->
             TArray(TObject(
               [id |-> TString, title |-> TString, description |-> TString,
                scores |->
                  TObject([frequency |-> TNumber, desperation |-> TNumber,
                           willingnessToPay |-> TNumber, trend |-> TNumber],
                          {"frequency", "desperation", "willingnessToPay", "trend"}),
                classification |-> TString,
                quotes |->
                  TArray(TObject([text |-> TString, source |-> TString,
                                  date |-> TString, url |-> TString],
                                 {"text", "source", "date", "url"}))],
               {"id", "title", "description", "scores", "classification", "quotes"})),
           nextSteps |-> TArray(TString)],
          {"executiveSummary", "patterns", "nextSteps"})

\* The value v has the shape the schema declares.
RECURSIVE Conforms(_, _)
Conforms(v, schema) ==
  CASE schema.type = "string" -> v.t = "string"
    [] schema.type = "number" -> v.t = "number"
    [] schema.type = "array" ->
         v.t = "array" /\ \A i \in 1..Len(v.v) : Conforms(v.v[i], schema.items)
    [] schema.type = "object" ->
         /\ v.t = "object"
         /\ \A k \in schema.required : k \in DOMAIN v.v
         /\ \A k \in DOMAIN v.v \cap DOMAIN schema.properties :
              Conforms(v.v[k], schema.properties[k])

\* ------------------------------------------------------------ messages
Chunks == {"401", "403", "429", "x"}
Msgs == UNION {[1..n -> Chunks] : n \in 0..MaxMsgLen}

\* String.prototype.includes for a marker.
Includes(msg, marker) == \E i \in 1..Len(msg) : msg[i] = marker

ConfigMsg == <<"Gemini API Key is missing or empty. Please ensure you have added 'GEMINI_API_KEY' to the Secrets panel and restarted the app.">>
EmptyPlanMsg == <<"The model returned an empty response. This can happen if the prompt was blocked or the model is unavailable.">>
InvalidKeyMsg == <<"Invalid API Key. Please check your GEMINI_API_KEY in the Secrets panel.">>
RateLimitMsg == <<"Rate limit exceeded. Please wait a moment before trying again.">>
NoAnalysisMsg == <<"No analysis received from Gemini.">>
PlanPrefix == <<"Research Planning failed: ">>
ExecPrefix == <<"Research Execution failed: ">>
AnalysisPrefix == <<"Signal Analysis failed: ">>
NoDataText == <<"No research data found.">>
CreditMsg == <<"Free credit limit reached. Please upgrade to Pro.">>
FallbackMsg == <<"An unexpected error occurred during research.">>
\* The message of the TypeError raised by reading a property of null/undefined.
TypeErrorMsg == <<"Cannot read properties of undefined">>

\* ------------------------------------------------------------ the backend
\* What one generateContent call can do: throw, or resolve with a response
\* whose text is absent or a (possibly empty) text.
Thrown(m) == [kind |-> "throw", msg |-> m, has |-> FALSE, text |-> <<>>]
NoText == [kind |-> "text", msg |-> <<>>, has |-> FALSE, text |-> <<>>]
Text(t) == [kind |-> "text", msg |-> <<>>, has |-> TRUE, text |-> t]

PlanTextGym ==
  <<"{", "subreddits", ":", "[", "{", "name", ":", "r/gymowners", ",",
    "queries", ":", "[", "software frustrations", "]", "}", "]", ",",
    "softwareCategories", ":", "[", "]", ",", "competitorApps", ":", "[", "]", ",",
    "searchStrings", ":", "[", "]", ",", "nicheForums", ":", "[", "]", "}">>
PlanTextTwo ==
  <<"{", "subreddits", ":", "[", "]", ",",
    "softwareCategories", ":", "[", "CRM software", ",", "Gym software", "]", ",",
    "competitorApps", ":", "[", "Mindbody", "]", ",",
    "searchStrings", ":", "[", "]", ",", "nicheForums", ":", "[", "]", "}">>
\* Valid JSON that is no research plan.
PlanTextNoFields == <<"{", "}">>
PlanTextNull == <<"null">>
\* Not JSON: a truncated object, a trailing comma.
PlanTextTruncated == <<"{", "subreddits", ":", "[">>
PlanTextComma == <<"{", "subreddits", ":", "[", "]", ",", "}">>
PlanTexts ==
  {PlanTextGym, PlanTextTwo, PlanTextNoFields, PlanTextNull, PlanTextTruncated,
   PlanTextComma}

FindingsGym == <<"Owners repeatedly complain about scheduling software losing bookings.">>
FindingsTexts == {FindingsGym, NoDataText}

PatternText(id, cls, freq) ==
  <<"{", "id", ":", id, ",", "title", ":", "Scheduling software loses bookings", ",",
    "description", ":", "d", ",",
    "scores", ":", "{", "frequency", ":", freq, ",", "desperation", ":", "4", ",",
    "willingnessToPay", ":", "3", ",", "trend", ":", "3", "}", ",",
    "classification", ":", cls, ",",
    "quotes", ":", "[", "{", "text", ":", "It lost my bookings again", ",",
    "source", ":", "reddit", ",", "date", ":", "2025-01-01", ",", "url", ":",
    "https://reddit.com/r/gymowners", "}", "]", "}">>
ReportHead == <<"{", "executiveSummary", ":", "summary", ",", "patterns", ":", "[">>
ReportTail == <<"]", ",", "nextSteps", ":", "[", "interview owners", "]", "}">>
ReportTextGym == ReportHead \o PatternText("p1", "Strong Signal", "4") \o ReportTail
ReportTextTwo ==
  ReportHead \o PatternText("p2", "Noise", "1") \o <<",">>
    \o PatternText("p1", "Weak Signal", "7") \o ReportTail
ReportTextEmpty == ReportHead \o ReportTail
\* Valid JSON that breaks the report schema: two patterns with one id, a
\* classification outside the enum, a score of 0, no nextSteps.
ReportTextOdd ==
  ReportHead \o PatternText("p1", "Maybe", "0") \o <<",">>
    \o PatternText("p1", "Noise", "2") \o <<"]", "}">>
ReportTextTruncated == ReportHead
ReportTextNull == <<"null">>
ReportTexts ==
  {ReportTextGym, ReportTextTwo, ReportTextOdd, ReportTextEmpty, ReportTextTruncated,
   ReportTextNull}

Responses(texts) ==
  {Thrown(m) : m \in Msgs} \cup {NoText, Text(<<>>)} \cup {Text(t) : t \in texts}
PlanResponses == Responses(PlanTexts)
FindingsResponses == Responses(FindingsTexts)
ReportResponses == Responses(ReportTexts)
\* The messages a SyntaxError of JSON.parse may carry.
ParseMsgs == {m \in Msgs : Len(m) <= 1}

\* ------------------------------------------------------------ geminiService.ts
NoKey == "<absent>"
KeyValues == {NoKey, "", "MY_GEMINI_API_KEY", "undefined", "AIza-valid-key"}

\* getAI without the check for the string "undefined".
getAINoUndefinedCheck(apiKey) ==
  IF apiKey = NoKey \/ apiKey = "MY_GEMINI_API_KEY" \/ apiKey = ""
  THEN [ok |-> FALSE, msg |-> ConfigMsg]
  ELSE [ok |-> TRUE, msg |-> <<>>]

\* getAI(): a client, or the configuration error.
getAI(apiKey) ==
  IF apiKey = NoKey \/ apiKey = "MY_GEMINI_API_KEY" \/ apiKey = "" \/ apiKey = "undefined"
  THEN [ok |-> FALSE, msg |-> ConfigMsg]
  ELSE [ok |-> TRUE, msg |-> <<>>]

\* The outcome of a stage function: a returned value, or a thrown Error with
\* its message.  cause and under record what was thrown inside the try block,
\* parsed whether JSON.parse was reached.
Return(v, parsed) ==
  [ok |-> TRUE, val |-> v, msg |-> <<>>, cause |-> "none", under |-> <<>>,
   parsed |-> parsed]
Throw(m, cause, parsed) ==
  [ok |-> FALSE, val |-> JUndefined, msg |-> m, cause |-> cause, under |-> m,
   parsed |-> parsed]
Rethrow(e, m) == [e EXCEPT !.msg = m]

\* The try block of generateResearchPlan filling in a default for a missing or
\* empty nicheForums.
PlanTryDefaults(ai, resp, parseMsg) ==
  IF ~ai.ok THEN Throw(ai.msg, "config", FALSE)
  ELSE IF resp.kind = "throw" THEN Throw(resp.msg, "backend", FALSE)
  ELSE IF ~resp.has \/ resp.text = <<>> THEN Throw(EmptyPlanMsg, "empty", FALSE)
  ELSE LET p == JSONParse(resp.text) IN
       IF ~p.ok THEN Throw(parseMsg, "parse", TRUE)
       ELSE IF p.val.t = "object"
                 /\ (Get(p.val, "nicheForums").t = "undefined"
                       \/ Get(p.val, "nicheForums") = JArray(<<>>))
         THEN Return(JObject(("nicheForums" :> JArray(<<JString("general")>>)) @@ p.val.v),
                     TRUE)
         ELSE Return(p.val, TRUE)

\* The try block of generateResearchPlan: getAI, the call, the empty-text
\* check, JSON.parse.  parseMsg is the message of JSON.parse's SyntaxError.
PlanTry(ai, resp, parseMsg) ==
  IF ~ai.ok THEN Throw(ai.msg, "config", FALSE)
  ELSE IF resp.kind = "throw" THEN Throw(resp.msg, "backend", FALSE)
  ELSE IF ~resp.has \/ resp.text = <<>> THEN Throw(EmptyPlanMsg, "empty", FALSE)
  ELSE LET p == JSONParse(resp.text) IN
       IF p.ok THEN Return(p.val, TRUE) ELSE Throw(parseMsg, "parse", TRUE)

\* The catch block of generateResearchPlan without the "403" test.
PlanCatchOnly401(e) ==
  IF Includes(e.msg, "401") THEN Rethrow(e, InvalidKeyMsg)
  ELSE IF Includes(e.msg, "429") THEN Rethrow(e, RateLimitMsg)
  ELSE Rethrow(e, PlanPrefix \o e.msg)

\* The catch block of generateResearchPlan with the "429" test first.
PlanCatch429First(e) ==
  IF Includes(e.msg, "429") THEN Rethrow(e, RateLimitMsg)
  ELSE IF Includes(e.msg, "403") \/ Includes(e.msg, "401") THEN Rethrow(e, InvalidKeyMsg)
  ELSE Rethrow(e, PlanPrefix \o e.msg)

\* The catch block of generateResearchPlan.
PlanCatch(e) ==
  IF Includes(e.msg, "403") \/ Includes(e.msg, "401") THEN Rethrow(e, InvalidKeyMsg)
  ELSE IF Includes(e.msg, "429") THEN Rethrow(e, RateLimitMsg)
  ELSE Rethrow(e, PlanPrefix \o e.msg)

generateResearchPlan(ai, resp, parseMsg) ==
  LET r == PlanTry(ai, resp, parseMsg) IN
  IF r.ok THEN r ELSE PlanCatch(r)

\* The catch block of executeResearch rethrowing the error as it came.
ExecCatchBare(e) == Rethrow(e, e.msg)

\* The catch block of executeResearch.
ExecCatch(e) == Rethrow(e, ExecPrefix \o e.msg)

\* The try block of executeResearch throwing on an empty text as the structured
\* stages do.
ExecTryThrowsOnEmpty(ai, resp) ==
  IF ~ai.ok THEN Throw(ai.msg, "config", FALSE)
  ELSE IF resp.kind = "throw" THEN Throw(resp.msg, "backend", FALSE)
  ELSE IF ~resp.has \/ resp.text = <<>> THEN Throw(NoDataText, "empty", FALSE)
  ELSE Return(resp.text, FALSE)

\* The try block of executeResearch: response.text || "No research data found."
ExecTry(ai, resp) ==
  IF ~ai.ok THEN Throw(ai.msg, "config", FALSE)
  ELSE IF resp.kind = "throw" THEN Throw(resp.msg, "backend", FALSE)
  ELSE IF ~resp.has \/ resp.text = <<>> THEN Return(NoDataText, FALSE)
  ELSE Return(resp.text, FALSE)

executeResearch(ai, resp) ==
  LET r == ExecTry(ai, resp) IN
  IF r.ok THEN r ELSE ExecCatch(r)

\* The catch block of analyzeSignals.
AnalyzeCatch(e) == Rethrow(e, AnalysisPrefix \o e.msg)

\* The try block of analyzeSignals without the empty-text check.
AnalyzeTryNoEmptyCheck(ai, resp, parseMsg) ==
  IF ~ai.ok THEN Throw(ai.msg, "config", FALSE)
  ELSE IF resp.kind = "throw" THEN Throw(resp.msg, "backend", FALSE)
  ELSE LET p == JSONParse(resp.text) IN
       IF p.ok THEN Return(p.val, TRUE) ELSE Throw(parseMsg, "parse", TRUE)

\* The try block of analyzeSignals rejecting a value that breaks the schema.
AnalyzeTryValidates(ai, resp, parseMsg) ==
  IF ~ai.ok THEN Throw(ai.msg, "config", FALSE)
  ELSE IF resp.kind = "throw" THEN Throw(resp.msg, "backend", FALSE)
  ELSE IF ~resp.has \/ resp.text = <<>> THEN Throw(NoAnalysisMsg, "empty", FALSE)
  ELSE LET p == JSONParse(resp.text) IN
       IF p.ok /\ Conforms(p.val, SIGNAL_REPORT_SCHEMA) THEN Return(p.val, TRUE)
       ELSE Throw(parseMsg, "parse", TRUE)

\* The try block of analyzeSignals.
AnalyzeTry(ai, resp, parseMsg) ==
  IF ~ai.ok THEN Throw(ai.msg, "config", FALSE)
  ELSE IF resp.kind = "throw" THEN Throw(resp.msg, "backend", FALSE)
  ELSE IF ~resp.has \/ resp.text = <<>> THEN Throw(NoAnalysisMsg, "empty", FALSE)
  ELSE LET p == JSONParse(resp.text) IN
       IF p.ok THEN Return(p.val, TRUE) ELSE Throw(parseMsg, "parse", TRUE)

analyzeSignals(ai, resp, parseMsg) ==
  LET r == AnalyzeTry(ai, resp, parseMsg) IN
  IF r.ok THEN r ELSE AnalyzeCatch(r)

\* ------------------------------------------------------------ App.tsx: state
VARIABLES
  market,         \* the input field
  stage,          \* ResearchStage
  plan,           \* ResearchPlan | null
  report,         \* SignalReport | null
  error,          \* string | null
  session,        \* the signed-in user, or null
  profile,        \* UserProfile | null
  showAuthModal,
  pc,             \* the await the running startResearch is suspended at
  pending,        \* what getAI returned when the awaited stage function was entered
  self,           \* the locals of the running startResearch: market and session
  log,            \* what the run has called, passed and got back so far
  store,          \* the profile store: credits_used of each user's row
  tails,          \* the profile-store calls in flight, by kind and user
  others,         \* the earlier calls of startResearch that are still running
  authLoading     \* a handleAuth is waiting for the auth service

vars ==
  <<market, stage, plan, report, error, session, profile, showAuthModal,
    pc, pending, self, log, store, tails, others, authLoading>>

Users == {"u1", "u2"}
\* is_pro of each user's row in the profile store.
IsPro(u) == u = "u2"
\* profile.credits_used >= 3
FreeCredits == 3
\* The rows found at startup: the free user is one run short of the limit.
InitCredits(u) == IF IsPro(u) THEN 0 ELSE FreeCredits - 1

Space == " "
Markets == {<<>>, <<Space, Space>>, <<Space, "gym owners">>}

RECURSIVE TrimStart(_)
TrimStart(m) == IF m # <<>> /\ Head(m) = Space THEN TrimStart(Tail(m)) ELSE m
RECURSIVE TrimEnd(_)
TrimEnd(m) ==
  IF m # <<>> /\ m[Len(m)] = Space THEN TrimEnd(SubSeq(m, 1, Len(m) - 1)) ELSE m
\* String.prototype.trim
Trim(m) == TrimEnd(TrimStart(m))

\* A state holder of type T | null holding the JavaScript value v.
Held(v) == IF v.t = "null" THEN None ELSE Some(v)

StageFns == {"plan", "research", "analyze"}
NoCalls == [f \in StageFns |-> 0]
NoLog ==
  [invoked |-> NoCalls, backend |-> NoCalls, parses |-> NoCalls, inc |-> 0,
   key |-> [f \in StageFns |-> None],
   got |-> [f \in StageFns |-> "none"],
   text |-> [f \in StageFns |-> None],
   shown |-> <<>>,
   args |-> [f \in StageFns |-> None],
   retPlan |-> None, retFindings |-> None, retReport |-> None,
   failedAt |-> "none", cause |-> "none", under |-> <<>>]

TailKinds == {"inc", "fetch"}
NoTails == [k \in TailKinds |-> [u \in Users |-> 0]]
RECURSIVE Sum(_, _)
Sum(f, S) == IF S = {} THEN 0 ELSE LET x == CHOOSE x \in S : TRUE IN f[x] + Sum(f, S \ {x})
InFlight(t) == Sum(t["inc"], Users) + Sum(t["fetch"], Users)

Init ==
  /\ market = <<>>
  /\ stage = "IDLE"
  /\ plan = None
  /\ report = None
  /\ error = None
  /\ session = None
  /\ profile = None
  /\ showAuthModal = FALSE
  /\ pc = "none"
  /\ pending = getAI(NoKey)
  /\ self = [market |-> <<>>, user |-> None]
  /\ log = NoLog
  /\ store = [u \in Users |-> InitCredits(u)]
  /\ tails = NoTails
  /\ others = <<>>
  /\ authLoading = FALSE

\* A stage function is entered with process.env.GEMINI_API_KEY = key: getAI
\* runs, and with a client the backend call is issued.
Enter(l, f, args, key) ==
  [l EXCEPT !.invoked[f] = @ + 1,
            !.backend[f] = @ + (IF getAI(key).ok THEN 1 ELSE 0),
            !.key[f] = Some(key),
            !.args[f] = Some(args)]

\* What the backend did: threw, or resolved with no text, an empty text, a text.
Class(resp) ==
  IF resp.kind = "throw" THEN "throw"
  ELSE IF ~resp.has THEN "absent"
  ELSE IF resp.text = <<>> THEN "empty" ELSE "text"

\* The stage function f settles with r; the backend, if called, answered resp.
Settled(l, f, called, resp, r) ==
  [l EXCEPT !.got[f] = IF called THEN Class(resp) ELSE "none",
            !.text[f] = IF called /\ Class(resp) = "text" THEN Some(resp.text) ELSE None,
            !.parses[f] = @ + (IF r.parsed THEN 1 ELSE 0)]

\* The arguments of the three calls of startResearch (lines 147, 153, 158).
PlanArgs(m) == [market |-> m]
\* executeResearch called with market.trim().
ResearchArgsTrimmed(m, researchPlan) == [market |-> Trim(m), plan |-> researchPlan]
ResearchArgs(m, researchPlan) == [market |-> m, plan |-> researchPlan]
AnalyzeArgs(m, rawData) == [market |-> m, findings |-> rawData]

\* setPlan(researchPlan), setReport(finalReport)
setPlan(researchPlan) == Held(researchPlan)
setReport(finalReport) == Held(finalReport)

\* err.message || 'An unexpected error occurred during research.'
CatchMessage(m) == IF m = <<>> THEN FallbackMsg ELSE m

\* The catch block of startResearch going back to IDLE.
CaughtToIdle(at, r, l) ==
  /\ error' = Some(CatchMessage(r.msg))
  /\ stage' = "IDLE"
  /\ pc' = "none"
  /\ log' = [l EXCEPT !.failedAt = at, !.cause = r.cause, !.under = r.under,
                      !.shown = CatchMessage(r.msg)]

\* The catch block of startResearch leaving the awaited call to settle again.
CaughtAndRetries(at, r, l) ==
  /\ error' = Some(CatchMessage(r.msg))
  /\ stage' = "ERROR"
  /\ pc' = pc
  /\ log' = [l EXCEPT !.failedAt = at, !.cause = r.cause, !.under = r.under,
                      !.shown = CatchMessage(r.msg)]

\* The catch block of startResearch without its setStage(ERROR).
CaughtKeepsStage(at, r, l) ==
  /\ error' = Some(CatchMessage(r.msg))
  /\ stage' = stage
  /\ pc' = "none"
  /\ log' = [l EXCEPT !.failedAt = at, !.cause = r.cause, !.under = r.under,
                      !.shown = CatchMessage(r.msg)]

\* The catch block of startResearch, for the Error r thrown at `at`.
Caught(at, r, l) ==
  /\ error' = Some(CatchMessage(r.msg))
  /\ stage' = "ERROR"
  /\ pc' = "none"
  /\ log' = [l EXCEPT !.failedAt = at, !.cause = r.cause, !.under = r.under,
                      !.shown = CatchMessage(r.msg)]

\* The template of line 152 reads researchPlan.subreddits.length and
\* researchPlan.softwareCategories.length.
ProgressTextThrows(p) ==
  \/ PropThrows(p)
  \/ PropThrows(Get(p, "subreddits"))
  \/ PropThrows(Get(p, "softwareCategories"))

\* ------------------------------------------------------------ App.tsx: the user
\* The input and the tag buttons, rendered with the form.
SetMarket(m) ==
  /\ stage \in {"IDLE", "ERROR"}
  /\ m # market
  /\ market' = m
  /\ UNCHANGED <<stage, plan, report, error, session, others, profile, showAuthModal,
                 pc, pending, self, log, store, tails, authLoading>>

\* market.trim() tested without the trim.
IsBlankNoTrim(m) == m = <<>>
\* !market.trim()
IsBlank(m) == Trim(m) = <<>>

\* The credit test with > in place of >=.
CreditLimitReachedAbove(p) ==
  IsSome(p) /\ ~Val(p).is_pro /\ Val(p).credits_used > FreeCredits
\* profile && !profile.is_pro && profile.credits_used >= 3
CreditLimitReached(p) ==
  IsSome(p) /\ ~Val(p).is_pro /\ Val(p).credits_used >= FreeCredits

\* The running call of startResearch, as it waits at its await.
Running == [pc |-> pc, pending |-> pending, self |-> self]
\* The calls that go on running when another call of startResearch begins a run.
Shelved == IF pc = "none" THEN others ELSE Append(others, Running)

\* startResearch, from the submit of the form to its first await; key is the
\* configured API key as getAI reads it.  The form is rendered while stage is
\* IDLE or ERROR.  A call that is still running goes on beside the new run.
StartResearch(key) ==
  /\ stage \in {"IDLE", "ERROR"}
  /\ IF IsBlank(market) THEN UNCHANGED vars
     ELSE IF session = None THEN
       /\ showAuthModal' = TRUE
       /\ UNCHANGED <<market, stage, plan, report, error, session, others, profile,
                      pc, pending, self, log, store, tails, authLoading>>
     ELSE IF CreditLimitReached(profile) THEN
       /\ error' = Some(CreditMsg)
       /\ UNCHANGED <<market, stage, plan, report, session, others, profile, showAuthModal,
                      pc, pending, self, log, store, tails, authLoading>>
     ELSE
       /\ InFlight(tails) <= MaxTails
       /\ Len(Shelved) < MaxRuns
       /\ stage' = "PLANNING"
       /\ error' = None
       /\ plan' = None
       /\ report' = None
       /\ self' = [market |-> market, user |-> session]
       /\ pc' = "plan"
       /\ pending' = getAI(key)
       /\ log' = Enter(NoLog, "plan", PlanArgs(market), key)
       /\ others' = Shelved
       /\ UNCHANGED <<market, session, profile, showAuthModal, store, tails, authLoading>>

\* A second submit of the form while it animates out.  The form is a child of
\* <AnimatePresence mode="wait"> with an exit animation: when stage leaves
\* IDLE/ERROR it stays mounted, as it was last rendered, until the animation
\* ends, here no later than the first backend call settles.  Its onSubmit is
\* the startResearch of that render, which sees the market, session and
\* profile the first submit saw and so passes the same tests.
SubmitWhileExiting(key) ==
  /\ stage = "PLANNING"
  /\ pc = "plan"
  /\ Len(Shelved) < MaxRuns
  /\ stage' = "PLANNING"
  /\ error' = None
  /\ plan' = None
  /\ report' = None
  /\ self' = self
  /\ pc' = "plan"
  /\ pending' = getAI(key)
  /\ log' = Enter(NoLog, "plan", PlanArgs(self.market), key)
  /\ others' = Shelved
  /\ UNCHANGED <<market, session, profile, showAuthModal, store, tails, authLoading>>

\* "Start New Research", rendered with the report.
Reset ==
  /\ stage = "COMPLETED"
  /\ IsSome(report)
  /\ stage' = "IDLE"
  /\ market' = <<>>
  /\ UNCHANGED <<plan, report, error, session, others, profile, showAuthModal,
                 pc, pending, self, log, store, tails, authLoading>>

\* A click on the backdrop of the auth modal.
CloseAuthModal ==
  /\ showAuthModal
  /\ showAuthModal' = FALSE
  /\ UNCHANGED <<market, stage, plan, report, error, session, others, profile,
                 pc, pending, self, log, store, tails, authLoading>>

\* "Sign In" in the header, rendered while nobody is signed in.
OpenAuthModal ==
  /\ session = None
  /\ ~showAuthModal
  /\ showAuthModal' = TRUE
  /\ UNCHANGED <<market, stage, plan, report, error, session, profile,
                 pc, pending, self, log, store, tails, others, authLoading>>

\* handleAuth, from the submit of the modal's form to its await; the submit
\* button is disabled while authLoading.
HandleAuth ==
  /\ showAuthModal
  /\ ~authLoading
  /\ authLoading' = TRUE
  /\ error' = None
  /\ UNCHANGED <<market, stage, plan, report, session, profile, showAuthModal,
                 pc, pending, self, log, store, tails, others>>

\* What signUp / signInWithPassword may resolve with: an error, success (a
\* sign-in, or a sign-up with a user), or a sign-up with neither user nor error.
AuthErrorMsg == <<"Invalid login credentials">>
AuthOutcomes == {"error", "done", "nothing"}

\* The auth call settles and handleAuth runs to its end.
AuthSettles(outcome) ==
  /\ authLoading
  /\ authLoading' = FALSE
  /\ error' = IF outcome = "error" THEN Some(AuthErrorMsg) ELSE error
  /\ showAuthModal' = IF outcome = "done" THEN FALSE ELSE showAuthModal
  /\ UNCHANGED <<market, stage, plan, report, session, profile,
                 pc, pending, self, log, store, tails, others>>

\* ------------------------------------------------------------ App.tsx: the run
\* In the actions below resps are the answers the backend may give to the
\* awaited call and parseMsgs the messages JSON.parse may throw with; without
\* a client there is no call and no answer.
\* generateResearchPlan settles and startResearch runs on to its next await,
\* where executeResearch reads the API key as `key`.
PlanSettles(key, resps, parseMsgs) ==
  /\ pc = "plan"
  /\ \E resp \in (IF pending.ok THEN resps ELSE {NoText}),
        parseMsg \in (IF pending.ok THEN parseMsgs ELSE {<<>>}) :
       LET r == generateResearchPlan(pending, resp, parseMsg)
           l == Settled(log, "plan", pending.ok, resp, r)
       IN IF ~r.ok THEN
            /\ Caught("plan", r, l)
            /\ UNCHANGED <<plan, pending>>
          ELSE IF ProgressTextThrows(r.val) THEN
            /\ plan' = setPlan(r.val)
            /\ Caught("caller", Throw(TypeErrorMsg, "type", FALSE),
                      [l EXCEPT !.retPlan = Some(r.val)])
            /\ UNCHANGED pending
          ELSE
            /\ plan' = setPlan(r.val)
            /\ stage' = "RESEARCHING"
            /\ pc' = "research"
            /\ pending' = getAI(key)
            /\ log' = Enter([l EXCEPT !.retPlan = Some(r.val)], "research",
                            ResearchArgs(self.market, r.val), key)
            /\ UNCHANGED error
  /\ UNCHANGED <<market, report, session, others, profile, showAuthModal, self, store, tails, authLoading>>

\* executeResearch settles and startResearch runs on to its next await,
\* where analyzeSignals reads the API key as `key`.
ResearchSettles(key, resps) ==
  /\ pc = "research"
  /\ \E resp \in (IF pending.ok THEN resps ELSE {NoText}) :
       LET r == executeResearch(pending, resp)
           l == Settled(log, "research", pending.ok, resp, r)
       IN
       IF ~r.ok THEN
            /\ Caught("research", r, l)
            /\ UNCHANGED pending
       ELSE
            /\ stage' = "ANALYZING"
            /\ pc' = "analyze"
            /\ pending' = getAI(key)
            /\ log' = Enter([l EXCEPT !.retFindings = Some(r.val)], "analyze",
                            AnalyzeArgs(self.market, r.val), key)
            /\ UNCHANGED error
  /\ UNCHANGED <<market, plan, report, session, others, profile, showAuthModal, self,
                 store, tails, authLoading>>

\* analyzeSignals settles and startResearch calls incrementCredits for the
\* session of the moment, if there is one.
AnalyzeSettlesCurrentSession(resps, parseMsgs) ==
  /\ pc = "analyze"
  /\ \E resp \in (IF pending.ok THEN resps ELSE {NoText}),
        parseMsg \in (IF pending.ok THEN parseMsgs ELSE {<<>>}) :
       LET r == analyzeSignals(pending, resp, parseMsg)
           l == Settled(log, "analyze", pending.ok, resp, r)
       IN IF ~r.ok THEN
            /\ Caught("analyze", r, l)
            /\ UNCHANGED <<report, tails>>
          ELSE
            /\ report' = setReport(r.val)
            /\ stage' = "COMPLETED"
            /\ pc' = "none"
            /\ tails' = IF session = None THEN tails
                        ELSE [tails EXCEPT !["inc"][Val(session)] = @ + 1]
            /\ log' = [l EXCEPT !.retReport = Some(r.val),
                                !.inc = @ + (IF session = None THEN 0 ELSE 1)]
            /\ UNCHANGED error
  /\ UNCHANGED <<market, plan, session, others, profile, showAuthModal, pending, self, store, authLoading>>

\* analyzeSignals settles; on success startResearch sets the report and calls
\* incrementCredits for the session it was started with.
AnalyzeSettles(resps, parseMsgs) ==
  /\ pc = "analyze"
  /\ \E resp \in (IF pending.ok THEN resps ELSE {NoText}),
        parseMsg \in (IF pending.ok THEN parseMsgs ELSE {<<>>}) :
       LET r == analyzeSignals(pending, resp, parseMsg)
           l == Settled(log, "analyze", pending.ok, resp, r)
           u == Val(self.user)
       IN IF ~r.ok THEN
            /\ Caught("analyze", r, l)
            /\ UNCHANGED <<report, tails>>
          ELSE
            /\ report' = setReport(r.val)
            /\ stage' = "COMPLETED"
            /\ pc' = "none"
            /\ tails' = [tails EXCEPT !["inc"][u] = @ + 1]
            /\ log' = [l EXCEPT !.retReport = Some(r.val), !.inc = @ + 1]
            /\ UNCHANGED error
  /\ UNCHANGED <<market, plan, session, others, profile, showAuthModal, pending, self, store, authLoading>>

\* ------------------------------------------------------------ App.tsx: earlier runs
Drop(i) == SubSeq(others, 1, i - 1) \o SubSeq(others, i + 1, Len(others))

\* generateResearchPlan settles in the earlier call others[i].
OtherPlanSettles(i, key, resps, parseMsgs) ==
  /\ others[i].pc = "plan"
  /\ \E resp \in (IF others[i].pending.ok THEN resps ELSE {NoText}),
        parseMsg \in (IF others[i].pending.ok THEN parseMsgs ELSE {<<>>}) :
       LET r == generateResearchPlan(others[i].pending, resp, parseMsg)
       IN IF ~r.ok THEN
            /\ error' = Some(CatchMessage(r.msg))
            /\ stage' = "ERROR"
            /\ others' = Drop(i)
            /\ UNCHANGED plan
          ELSE IF ProgressTextThrows(r.val) THEN
            /\ plan' = setPlan(r.val)
            /\ error' = Some(CatchMessage(TypeErrorMsg))
            /\ stage' = "ERROR"
            /\ others' = Drop(i)
          ELSE
            /\ plan' = setPlan(r.val)
            /\ stage' = "RESEARCHING"
            /\ others' = [others EXCEPT ![i].pc = "research", ![i].pending = getAI(key)]
            /\ UNCHANGED error
  /\ UNCHANGED <<market, report, session, profile, showAuthModal, pc, pending, self,
                 log, store, tails, authLoading>>

\* executeResearch settles in the earlier call others[i].
OtherResearchSettles(i, key, resps) ==
  /\ others[i].pc = "research"
  /\ \E resp \in (IF others[i].pending.ok THEN resps ELSE {NoText}) :
       LET r == executeResearch(others[i].pending, resp)
       IN IF ~r.ok THEN
            /\ error' = Some(CatchMessage(r.msg))
            /\ stage' = "ERROR"
            /\ others' = Drop(i)
          ELSE
            /\ stage' = "ANALYZING"
            /\ others' = [others EXCEPT ![i].pc = "analyze", ![i].pending = getAI(key)]
            /\ UNCHANGED error
  /\ UNCHANGED <<market, plan, report, session, profile, showAuthModal, pc, pending,
                 self, log, store, tails, authLoading>>

\* analyzeSignals settles in the earlier call others[i].
OtherAnalyzeSettles(i, resps, parseMsgs) ==
  /\ others[i].pc = "analyze"
  /\ \E resp \in (IF others[i].pending.ok THEN resps ELSE {NoText}),
        parseMsg \in (IF others[i].pending.ok THEN parseMsgs ELSE {<<>>}) :
       LET r == analyzeSignals(others[i].pending, resp, parseMsg)
       IN IF ~r.ok THEN
            /\ error' = Some(CatchMessage(r.msg))
            /\ stage' = "ERROR"
            /\ UNCHANGED <<report, tails>>
          ELSE
            /\ report' = setReport(r.val)
            /\ stage' = "COMPLETED"
            /\ tails' = [tails EXCEPT !["inc"][Val(others[i].self.user)] = @ + 1]
            /\ UNCHANGED error
  /\ others' = Drop(i)
  /\ UNCHANGED <<market, plan, session, profile, showAuthModal, pc, pending, self,
                 log, store, authLoading>>

\* ------------------------------------------------------------ supabase.ts
\* The auth listener: setSession, then fetchProfile or setProfile(null).
AuthChange(s) ==
  /\ session' = s
  /\ IF s = None
     THEN profile' = None /\ UNCHANGED tails
     ELSE /\ InFlight(tails) < MaxTails
          /\ tails' = [tails EXCEPT !["fetch"][Val(s)] = @ + 1]
          /\ UNCHANGED profile
  /\ UNCHANGED <<market, stage, plan, report, error, showAuthModal, pc,
                 pending, self, log, store, others, authLoading>>

\* incrementCredits(u) rethrowing what it caught: startResearch's catch block
\* takes it.
IncrementSettlesSurfaces(u, ok) ==
  /\ tails["inc"][u] > 0
  /\ ok => store[u] < MaxCredits
  /\ store' = IF ok THEN [store EXCEPT ![u] = @ + 1] ELSE store
  /\ tails' = [tails EXCEPT !["inc"][u] = @ - 1, !["fetch"][u] = @ + 1]
  /\ IF ok THEN UNCHANGED <<stage, error>>
     ELSE stage' = "ERROR" /\ error' = Some(FallbackMsg)
  /\ UNCHANGED <<market, plan, report, session, others, profile,
                 showAuthModal, pc, pending, self, log, authLoading>>

\* incrementCredits(u) settles (the rpc succeeded, or its failure was logged),
\* and startResearch calls fetchProfile(u) without awaiting it.
IncrementSettles(u, ok) ==
  /\ tails["inc"][u] > 0
  /\ ok => store[u] < MaxCredits
  /\ store' = IF ok THEN [store EXCEPT ![u] = @ + 1] ELSE store
  /\ tails' = [tails EXCEPT !["inc"][u] = @ - 1, !["fetch"][u] = @ + 1]
  /\ UNCHANGED <<market, stage, plan, report, error, session, others, profile,
                 showAuthModal, pc, pending, self, log, authLoading>>

\* getProfile(u): the row, or null when there is none or the query failed.
getProfile(u, found) ==
  IF found
  THEN Some([id |-> u, is_pro |-> IsPro(u), credits_used |-> store[u]])
  ELSE None

\* fetchProfile(u): getProfile settles and setProfile takes what it returned.
FetchSettles(u, found) ==
  /\ tails["fetch"][u] > 0
  /\ profile' = getProfile(u, found)
  /\ tails' = [tails EXCEPT !["fetch"][u] = @ - 1]
  /\ UNCHANGED <<market, stage, plan, report, error, session, others, showAuthModal,
                 pc, pending, self, log, store, authLoading>>

\* ------------------------------------------------------------ specifications
\* The pipeline, run by one user who acts on what is rendered for the stage
\* of the moment.
Next ==
  \/ \E m \in Markets : SetMarket(m)
  \/ \E key \in KeyValues : StartResearch(key)
  \/ Reset
  \/ CloseAuthModal
  \/ \E key \in KeyValues : PlanSettles(key, PlanResponses, ParseMsgs)
  \/ \E key \in KeyValues : ResearchSettles(key, FindingsResponses)
  \/ AnalyzeSettles(ReportResponses, ParseMsgs)
  \/ \E s \in {None, Some("u1")} : AuthChange(s)
  \/ \E ok \in BOOLEAN : IncrementSettles("u1", ok)
  \/ \E found \in BOOLEAN : FetchSettles("u1", found)

Spec == Init /\ [][Next]_vars

\* A key that gives a client and one that gives none; a backend that throws,
\* answers without text or answers with the text t.
FewKeys == {"AIza-valid-key", ""}
FewResponses(t) == {Thrown(<<"x">>), NoText, Text(t)}
FewPlanResponses == FewResponses(PlanTextGym)
FewFindingsResponses == FewResponses(FindingsGym)
FewReportResponses == FewResponses(ReportTextGym)
\* None of these texts fails to parse.
NoParseMsgs == {<<>>}

\* The pipeline with submits of the form while it animates out, for a user who
\* signs in, enters a market and stays.
NextExiting ==
  \/ SetMarket(<<Space, "gym owners">>)
  \/ AuthChange(Some("u1"))
  \/ \E key \in FewKeys : StartResearch(key)
  \/ \E key \in FewKeys : SubmitWhileExiting(key)
  \/ Reset
  \/ \E key \in FewKeys : PlanSettles(key, FewPlanResponses, NoParseMsgs)
  \/ \E key \in FewKeys : ResearchSettles(key, FewFindingsResponses)
  \/ AnalyzeSettles(FewReportResponses, NoParseMsgs)
  \/ \E i \in 1..Len(others), key \in FewKeys :
       OtherPlanSettles(i, key, FewPlanResponses, NoParseMsgs)
  \/ \E i \in 1..Len(others), key \in FewKeys :
       OtherResearchSettles(i, key, FewFindingsResponses)
  \/ \E i \in 1..Len(others) :
       OtherAnalyzeSettles(i, FewReportResponses, NoParseMsgs)
  \/ \E ok \in BOOLEAN : IncrementSettles("u1", ok)
  \/ \E found \in BOOLEAN : FetchSettles("u1", found)

SpecExiting == Init /\ [][NextExiting]_vars

\* The pipeline together with the auth modal, for a user who signs in and out.
NextAuth ==
  \/ SetMarket(<<Space, "gym owners">>)
  \/ \E s \in {None, Some("u1")} : AuthChange(s)
  \/ OpenAuthModal
  \/ CloseAuthModal
  \/ HandleAuth
  \/ \E outcome \in AuthOutcomes : AuthSettles(outcome)
  \/ \E key \in FewKeys : StartResearch(key)
  \/ Reset
  \/ \E key \in FewKeys : PlanSettles(key, FewPlanResponses, NoParseMsgs)
  \/ \E key \in FewKeys : ResearchSettles(key, FewFindingsResponses)
  \/ AnalyzeSettles(FewReportResponses, NoParseMsgs)
  \/ \E ok \in BOOLEAN : IncrementSettles("u1", ok)
  \/ \E found \in BOOLEAN : FetchSettles("u1", found)

SpecAuth == Init /\ [][NextAuth]_vars

\* Every awaited backend call eventually resolves or rejects: each of the three
\* continuations of startResearch is taken once its call is pending.
BackendSettles ==
  /\ WF_vars(\E key \in FewKeys : PlanSettles(key, FewPlanResponses, NoParseMsgs))
  /\ WF_vars(\E key \in FewKeys : ResearchSettles(key, FewFindingsResponses))
  /\ WF_vars(AnalyzeSettles(FewReportResponses, NoParseMsgs))

SpecSettling == Init /\ [][NextAuth]_vars /\ BackendSettles

\* ------------------------------------------------------------ the claims
StagePrefix(f) ==
  CASE f = "plan" -> PlanPrefix [] f = "research" -> ExecPrefix
    [] f = "analyze" -> AnalysisPrefix
HasCredentialMarker(m) == Includes(m, "401") \/ Includes(m, "403")
Failed == log.failedAt # "none"
AllCalled == [f \in StageFns |-> 1]

\* C1: the stage changes only along PLANNING -> RESEARCHING -> ANALYZING ->
\* COMPLETED or from a running stage to ERROR while a run is in flight, and
\* otherwise only by a new submit (IDLE or ERROR to PLANNING, starting a run)
\* or by the reset (COMPLETED to IDLE).
RunSteps ==
  {<<"PLANNING", "RESEARCHING">>, <<"RESEARCHING", "ANALYZING">>,
   <<"ANALYZING", "COMPLETED">>, <<"PLANNING", "ERROR">>,
   <<"RESEARCHING", "ERROR">>, <<"ANALYZING", "ERROR">>}
C2_FailureEndsRun ==
  /\ \A f \in StageFns : log.invoked[f] <= 1 /\ log.backend[f] <= log.invoked[f]
  /\ log.invoked["research"] = 1 => log.backend["plan"] = 1
  /\ log.invoked["analyze"] = 1 => log.backend["research"] = 1
  /\ Failed => pc = "none" /\ log.inc = 0
  /\ log.failedAt \in {"plan", "caller"} =>
       log.backend["research"] = 0 /\ log.invoked["analyze"] = 0
  /\ log.failedAt = "research" => log.invoked["analyze"] = 0
  /\ log.inc <= 1 /\ (log.inc = 1 => log.backend = AllCalled /\ ~Failed)
C2_Witness ==
  log.failedAt = "research" /\ log.backend["plan"] = 1 /\ log.backend["research"] = 1

\* C3 as stated: an underlying message with "401" or "403" is reported as the
\* invalid-credential message whichever stage raised it.
C3_AnyStageInvalidKey ==
  log.failedAt \in StageFns /\ HasCredentialMarker(log.under)
    => log.shown = InvalidKeyMsg
\* C3 amended: it is reported as the invalid-credential message when
\* generateResearchPlan raised it, and behind the stage's own prefix when
\* executeResearch or analyzeSignals raised it.
C3_InvalidKeyInPlanOnly ==
  log.failedAt \in StageFns /\ HasCredentialMarker(log.under)
    => log.shown = IF log.failedAt = "plan" THEN InvalidKeyMsg
                   ELSE StagePrefix(log.failedAt) \o log.under
C3_Witness ==
  /\ log.failedAt = "research" /\ log.got["research"] = "throw"
  /\ Includes(log.under, "403") /\ stage = "ERROR"

\* C4 as stated: every message with "429" raised in generateResearchPlan is
\* reported as the rate-limit message.
C4_Always429 ==
  log.failedAt = "plan" /\ Includes(log.under, "429") => log.shown = RateLimitMsg
\* C4 amended: it is reported as the rate-limit message unless it also holds
\* "401" or "403", and then as the invalid-credential message.
C4_RateLimitUnlessCredential ==
  log.failedAt = "plan" /\ Includes(log.under, "429")
    => log.shown = IF HasCredentialMarker(log.under) THEN InvalidKeyMsg
                   ELSE RateLimitMsg
C4_Witness ==
  /\ log.failedAt = "plan" /\ log.under = <<"429", "x">>
  /\ error = Some(RateLimitMsg) /\ stage = "ERROR"

\* C5: a text that is not JSON makes generateResearchPlan fail with
\* "Research Planning failed: " and analyzeSignals with "Signal Analysis
\* failed: " before the SyntaxError's message, whatever that message is.
C5_ParseFailureWrapped ==
  log.failedAt \in {"plan", "analyze"} /\ log.cause = "parse"
    => log.shown = StagePrefix(log.failedAt) \o log.under

\* C6: a stage entered with the API key absent, empty, the placeholder or
\* "undefined" calls no backend and fails with the configuration message
\* behind its prefix, whatever the key was at the stages before it.
BadKeys == {NoKey, "", "MY_GEMINI_API_KEY", "undefined"}
C6_BadKeyNoCall ==
  \A f \in StageFns :
    IsSome(log.key[f]) /\ Val(log.key[f]) \in BadKeys =>
      /\ log.backend[f] = 0
      /\ \/ ~Failed /\ pc = f
         \/ /\ log.failedAt = f /\ log.got[f] = "none"
            /\ log.shown = StagePrefix(f) \o ConfigMsg
C6_Witness ==
  /\ log.key["plan"] = Some("AIza-valid-key") /\ log.key["research"] = Some("undefined")
  /\ log.failedAt = "research" /\ stage = "ERROR"

\* C7: an absent or empty text of a structured call makes the stage fail with
\* its empty-response message behind its prefix, without parsing or returning.
C7_EmptyTextFails ==
  /\ log.got["plan"] \in {"absent", "empty"} =>
       /\ log.failedAt = "plan" /\ log.shown = PlanPrefix \o EmptyPlanMsg
       /\ log.parses["plan"] = 0 /\ log.retPlan = None
  /\ log.got["analyze"] \in {"absent", "empty"} =>
       /\ log.failedAt = "analyze" /\ log.shown = AnalysisPrefix \o NoAnalysisMsg
       /\ log.parses["analyze"] = 0 /\ log.retReport = None
C7_Witness == log.got["analyze"] = "absent" /\ stage = "ERROR"

\* C8: an absent or empty text of the search call makes executeResearch return
\* "No research data found.", and the run goes on to ANALYZING with it;
\* executeResearch never returns an empty text and fails only when getAI or
\* the backend call throws.
C8_NoDataSentinel ==
  /\ log.got["research"] \in {"absent", "empty"} =>
       /\ log.retFindings = Some(NoDataText)
       /\ log.args["analyze"] = Some([market |-> self.market, findings |-> NoDataText])
       /\ log.failedAt \in {"none", "analyze"}
       /\ pc = "analyze" => stage = "ANALYZING"
  /\ log.retFindings # Some(<<>>)
  /\ log.failedAt = "research" => log.got["research"] \in {"none", "throw"}
C8_Witness == log.got["research"] = "empty" /\ pc = "analyze" /\ stage = "ANALYZING"

\* C9 as stated: the message of every failed run starts with the prefix of
\* the stage that failed.
C9_AlwaysNamesStage ==
  Failed =>
    Head(log.shown) = Head(StagePrefix(IF log.failedAt = "caller" THEN "research"
                                       ELSE log.failedAt))
\* C9 amended: it does, except for the invalid-credential and rate-limit
\* messages generateResearchPlan puts in place of a message with a marker, and
\* for the TypeError of startResearch reading the plan; it is never empty.
C9_NamesStageOrSubstitute ==
  Failed =>
    /\ log.shown # <<>>
    /\ \/ log.failedAt \in StageFns
            /\ log.shown = StagePrefix(log.failedAt) \o log.under
       \/ log.failedAt = "plan" /\ HasCredentialMarker(log.under)
            /\ log.shown = InvalidKeyMsg
       \/ log.failedAt = "plan" /\ Includes(log.under, "429")
            /\ log.shown = RateLimitMsg
       \/ log.failedAt = "caller" /\ log.shown = TypeErrorMsg
C9_Witness ==
  /\ log.failedAt = "plan" /\ log.shown = InvalidKeyMsg
  /\ stage = "ERROR" /\ error = Some(InvalidKeyMsg)

\* C10: when a run completes, executeResearch was given the plan
\* generateResearchPlan returned, analyzeSignals the findings executeResearch
\* returned, all three the market of the submit, and the report held is the
\* value analyzeSignals returned.
C10_ValuesHandedOn ==
  stage = "COMPLETED" =>
    /\ IsSome(log.retPlan) /\ IsSome(log.retFindings) /\ IsSome(log.retReport)
    /\ log.args["plan"] = Some([market |-> self.market])
    /\ log.args["research"] = Some([market |-> self.market, plan |-> Val(log.retPlan)])
    /\ log.args["analyze"] =
         Some([market |-> self.market, findings |-> Val(log.retFindings)])
    /\ report = Held(Val(log.retReport))
C10_Witness ==
  /\ stage = "COMPLETED"
  /\ report = Some(JSONParse(ReportTextTwo).val)
  /\ Len(Get(Val(report), "patterns").v) = 2
  /\ log.retFindings = Some(FindingsGym)

\* C11: for a backend text that is well-formed JSON matching the plan schema,
\* generateResearchPlan returns exactly the structure the text denotes: the
\* five fields with their elements in the order of the text and the empty
\* sequences empty, nothing added, removed, reordered or defaulted.
Strings(seq) == JArray([i \in 1..Len(seq) |-> JString(seq[i])])
PlanGym ==
  JObject([subreddits |->
             JArray(<<JObject([name |-> JString("r/gymowners"),
                               queries |-> Strings(<<"software frustrations">>)])>>),
           softwareCategories |-> Strings(<<>>), competitorApps |-> Strings(<<>>),
           searchStrings |-> Strings(<<>>), nicheForums |-> Strings(<<>>)])
PlanTwo ==
  JObject([subreddits |-> JArray(<<>>),
           softwareCategories |-> Strings(<<"CRM software", "Gym software">>),
           competitorApps |-> Strings(<<"Mindbody">>),
           searchStrings |-> Strings(<<>>), nicheForums |-> Strings(<<>>)])
PlanFields ==
  {"subreddits", "softwareCategories", "competitorApps", "searchStrings", "nicheForums"}
C11_PlanRoundTrip ==
  /\ log.text["plan"] = Some(PlanTextGym) => log.retPlan = Some(PlanGym)
  /\ log.text["plan"] = Some(PlanTextTwo) => log.retPlan = Some(PlanTwo)
  /\ \A v \in {PlanGym, PlanTwo} :
       Conforms(v, RESEARCH_PLAN_SCHEMA) /\ DOMAIN v.v = PlanFields
  /\ IsSome(log.retPlan) /\ Conforms(Val(log.retPlan), RESEARCH_PLAN_SCHEMA) =>
       /\ Val(log.retPlan) \in {PlanGym, PlanTwo}
       /\ log.failedAt # "plan"
       /\ log.args["research"] =
            Some([market |-> self.market, plan |-> Val(log.retPlan)])
C11_Witness ==
  /\ log.text["plan"] = Some(PlanTextTwo) /\ plan = Some(PlanTwo)
  /\ Get(PlanTwo, "softwareCategories").v[2] = JString("Gym software")
  /\ stage = "RESEARCHING"

\* C12: a text of a structured call that parses as JSON is returned by the
\* stage as it parsed, whether or not it has the shape of the schema: the
\* stage does not fail on a missing required field, a score outside 1..5, a
\* classification outside the three classes or a repeated pattern id.
Classifications == {"Strong Signal", "Weak Signal", "Noise"}
ScoreNames == {"frequency", "desperation", "willingnessToPay", "trend"}
\* The conventions of a report that has the shape of the schema.
KeepsConventions(v) ==
  LET ps == Get(v, "patterns").v IN
  /\ \A i \in 1..Len(ps) :
       /\ Get(ps[i], "classification").v \in Classifications
       /\ \A n \in ScoreNames : Get(Get(ps[i], "scores"), n).v \in 1..5
  /\ \A i, j \in 1..Len(ps) : Get(ps[i], "id") = Get(ps[j], "id") => i = j
WellFormedReport(v) == Conforms(v, SIGNAL_REPORT_SCHEMA) /\ KeepsConventions(v)
C12_NoValidation ==
  /\ \A f \in {"plan", "analyze"} :
       IsSome(log.text[f]) /\ JSONParse(Val(log.text[f])).ok =>
         /\ (IF f = "plan" THEN log.retPlan ELSE log.retReport)
              = Some(JSONParse(Val(log.text[f])).val)
         /\ log.failedAt # f
  /\ log.text["plan"] = Some(PlanTextNoFields) =>
       /\ log.retPlan = Some(JObject(<<>>)) /\ plan = Some(JObject(<<>>))
       /\ log.failedAt = "caller" /\ log.invoked["research"] = 0
  /\ log.text["analyze"] \in {Some(ReportTextOdd), Some(ReportTextTwo)} =>
       /\ ~WellFormedReport(Val(log.retReport))
       /\ ~Failed /\ log.inc = 1
C12_Witness ==
  /\ stage = "COMPLETED" /\ log.text["analyze"] = Some(ReportTextOdd)
  /\ report = log.retReport /\ ~Conforms(Val(report), SIGNAL_REPORT_SCHEMA)
  /\ Get(Get(Val(report), "patterns").v[1], "classification") = JString("Maybe")
  /\ Get(Get(Val(report), "patterns").v[1], "id")
       = Get(Get(Val(report), "patterns").v[2], "id")
  /\ Get(Get(Get(Val(report), "patterns").v[1], "scores"), "frequency") = JNumber(0)

\* C13: incrementCredits is called in the step that takes a run from ANALYZING
\* to COMPLETED, once, with the report set in the same step and for the user
\* of the session the run was started with, signed in still or not; no other
\* step calls it, so a failed or rejected run never does.
C13_IncrementOncePerCompletion ==
  [][/\ stage' = "COMPLETED" /\ stage # "COMPLETED" =>
          /\ stage = "ANALYZING" /\ IsSome(self.user)
          /\ report' = Held(Val(log'.retReport))
          /\ tails'["inc"] = [tails["inc"] EXCEPT ![Val(self.user)] = @ + 1]
          /\ log.inc = 0 /\ log'.inc = 1
     /\ (\E u \in Users : tails'["inc"][u] > tails["inc"][u]) =>
          stage = "ANALYZING" /\ stage' = "COMPLETED"
     /\ stage' = "ERROR" \/ pc' = "plan" => log'.inc = 0]_vars
C13_Witness ==
  /\ stage = "COMPLETED" /\ IsSome(report) /\ log.inc = 1
  /\ session = None /\ self.user = Some("u1") /\ tails["inc"]["u1"] = 1

\* C14: while the profile held is not pro and has used 3 credits or more no
\* step begins a run or makes a backend call, and the only step that writes
\* the error message is the rejection: it sets the credit-limit message and
\* leaves stage, plan, report and everything else as they were.
C14_CreditLimitRejects ==
  [][IsSome(profile) /\ ~Val(profile).is_pro /\ Val(profile).credits_used >= 3
       /\ pc = "none" =>
       /\ pc' = "none" /\ stage' \in {stage, "IDLE"}
       /\ UNCHANGED <<plan, report, pending, log>>
       /\ error' # error =>
            /\ session # None /\ \E i \in 1..Len(market) : market[i] # Space
            /\ error' = Some(CreditMsg)
            /\ UNCHANGED <<stage, store, tails, market, session, profile,
                           showAuthModal>>]_vars
C14_Witness ==
  /\ error = Some(CreditMsg) /\ session = Some("u1")
  /\ profile = Some([id |-> "u1", is_pro |-> FALSE, credits_used |-> 3])
  /\ stage = "IDLE" /\ IsSome(report) /\ pc = "none"

\* C15: the step in which an incrementCredits call settles, with the counter
\* raised or with its failure swallowed, leaves stage, plan, report and error
\* as they were; a failed call leaves the counter as it was too.
C15_IncrementFailureSilent ==
  [][(\E u \in Users : tails'["inc"][u] < tails["inc"][u]) =>
       /\ UNCHANGED <<stage, plan, report, error, pc, log>>
       /\ \/ store' = store
          \/ \E u \in Users : store' = [store EXCEPT ![u] = @ + 1]]_vars
C15_Witness ==
  /\ stage = "COMPLETED" /\ error = None
  /\ IsSome(report) /\ report = log.retReport
  /\ log.inc = 1 /\ tails["inc"]["u1"] = 0
  /\ store["u1"] = InitCredits("u1")

\* C16: at most one call of startResearch is running at any time: none begins
\* a run while another waits for its backend call.
RunsInFlight == Len(others) + (IF pc = "none" THEN 0 ELSE 1)
C16_OneRunInFlight == RunsInFlight <= 1

\* C17: while the market is empty or all spaces, or nobody is signed in, no
\* step begins a run, makes a backend call or writes plan, report or error;
\* the auth modal is opened only with a market and no session, by a step that
\* changes nothing else.
AllSpaces(m) == \A i \in 1..Len(m) : m[i] = Space
C17_BlankOrSignedOutStartsNothing ==
  [][/\ (AllSpaces(market) \/ session = None) /\ pc = "none" =>
          /\ pc' = "none" /\ stage' \in {stage, "IDLE"}
          /\ UNCHANGED <<plan, report, error, pending, log>>
     /\ ~showAuthModal /\ showAuthModal' =>
          /\ session = None /\ ~AllSpaces(market)
          /\ UNCHANGED <<market, stage, plan, report, error, session, profile,
                         pc, pending, self, log, store, tails>>]_vars
C17_Witness ==
  /\ showAuthModal /\ session = None /\ ~AllSpaces(market)
  /\ stage = "ERROR" /\ IsSome(error) /\ pc = "none"

\* C18: no step begins a run for a signed-in user who is not pro while the
\* profile store's counter for that user is 3 or more.
C18_NoRunPastLimit ==
  [][pc = "none" /\ pc' = "plan" /\ IsSome(session) /\ ~IsPro(Val(session))
       => store[Val(session)] < 3]_vars

\* C19: while nobody is signed in no profile is held.
C19_SignedOutNoProfile == session = None => profile = None

\* C20: a report is held when stage is COMPLETED and none when stage is
\* PLANNING, RESEARCHING, ANALYZING or ERROR; no plan is held when stage is
\* PLANNING.
C20_StageReportPlan ==
  /\ stage = "COMPLETED" => report # None
  /\ stage \in {"PLANNING", "RESEARCHING", "ANALYZING", "ERROR"} => report = None
  /\ stage = "PLANNING" => plan = None

\* C21: an error message, not empty, is held when stage is ERROR and none
\* when stage is PLANNING, RESEARCHING or ANALYZING.
C21_StageError ==
  /\ stage = "ERROR" => error # None /\ Val(error) # <<>>
  /\ stage \in {"PLANNING", "RESEARCHING", "ANALYZING"} => error = None

\* C22: when every backend call eventually resolves or rejects, a run that
\* entered PLANNING eventually ends with stage COMPLETED or ERROR; stage never
\* stays PLANNING, RESEARCHING or ANALYZING forever.
C22_RunTerminates ==
  (pc # "none" \/ stage \in {"PLANNING", "RESEARCHING", "ANALYZING"})
    ~> (pc = "none" /\ stage \in {"COMPLETED", "ERROR"})

\* A run that passed PLANNING and RESEARCHING waits for its last call.
C22_Witness ==
  /\ stage = "ANALYZING" /\ pc = "analyze" /\ pending.ok
  /\ log.invoked = AllCalled /\ log.backend["analyze"] = 1

====
